---------------------------- MODULE Spec2Model ----------------------------
(***************************************************************************)
(* Model of the daily-briefing deduplication engine                        *)
(* (src/src/processors/deduper.py).                                        *)
(*                                                                         *)
(* Strings are sequences of one-character strings, so that parsing,        *)
(* re-encoding and matching are computed character by character the way    *)
(* the Python code and the library calls it makes compute them.            *)
(***************************************************************************)
EXTENDS Integers, Sequences, FiniteSets, TLC

VARIABLES
    seen_urls,      \* Deduper._seen_urls: set of normalized URLs
    seen_titles,    \* Deduper._seen_titles: list of original titles
    pc,             \* position of the caller: "idle", or "loop" inside deduplicate
    articles,       \* deduplicate: the argument list
    idx,            \* deduplicate: 1-based position of the for loop
    unique,         \* deduplicate: the list being built
    duplicates_removed, \* deduplicate: the counter of rejected candidates
    result,         \* value returned by the last call
    pre_urls,       \* history: _seen_urls when the running deduplicate was called
    pre_titles,     \* history: _seen_titles when the running deduplicate was called
    kept,           \* history: the positions of articles accepted by the running call
    rejected,       \* history: the articles deduplicate has rejected so far
    last,           \* history: what the last step did
    submitted,      \* history: number of articles handed to the Deduper so far
    url_parts,      \* normalize_url study: the pieces the input URL is made of
    url_in,         \* normalize_url study: the input string
    url_out,        \* normalize_url study: normalize_url(url_in)
    url_out2,       \* normalize_url study: normalize_url(url_out)
    upc,            \* normalize_url study: how often the function was applied
    title_a,        \* title study: the first title
    title_b,        \* title study: the second title
    norm1,          \* title study: normalize_title(title_a)
    norm1_again,    \* title study: normalize_title(norm1)
    ratio12,        \* title study: title_similarity(title_a, title_b)
    ratio21,        \* title study: title_similarity(title_b, title_a)
    similar_seen,   \* title study: is_similar_to_seen(title_a)
    tpc,            \* title study: the calls made so far
    run,            \* pipeline: number of run_pipeline calls started
    ppc,            \* pipeline: position inside run_pipeline
    dry_run,        \* pipeline: the argument of run_pipeline
    tasks,          \* pipeline: per source, the position and the result of collect_from_source
    closed,         \* pipeline: per source, the number of collector.close() calls of this run
    fetched,        \* pipeline history: per source, what collector.collect() returned
    failed,         \* pipeline history: the sources whose collector.collect() raised
    finished,       \* pipeline history: the sources in the order their tasks ended
    run_articles,   \* pipeline: the variable articles of run_pipeline
    unavailable_sources, \* pipeline: the variable unavailable_sources of run_pipeline
    handed,         \* pipeline history: the list handed to deduplicate in this run
    digest,         \* pipeline history: the articles of the briefing of this run
    db_at_start,    \* pipeline history: the table articles when this run started
    db_articles,    \* Database: the rows of the table articles
    db_source_health, \* Database: the rows of the table source_health
    db_briefings,   \* Database: the status of the rows of the table briefings
    raised,         \* pipeline: run_pipeline has raised
    first_batch,    \* repeated calls: the argument of the first deduplicate call
    first_result,   \* repeated calls: what the first call returned
    first_urls,     \* repeated calls: _seen_urls when the first call returned
    first_titles,   \* repeated calls: _seen_titles when the first call returned
    rpc             \* repeated calls: the calls made so far

dedup_vars == <<seen_urls, seen_titles, pc, articles, idx, unique,
                duplicates_removed, result, pre_urls, pre_titles, kept,
                rejected, last, submitted>>
url_vars == <<url_parts, url_in, url_out, url_out2, upc>>
title_vars == <<title_a, title_b, norm1, norm1_again, ratio12, ratio21,
                similar_seen, tpc>>
pipe_vars == <<run, ppc, dry_run, tasks, closed, fetched, failed, finished,
               run_articles, unavailable_sources, handed, digest, db_at_start,
               db_articles, db_source_health, db_briefings, raised>>
repeat_vars == <<first_batch, first_result, first_urls, first_titles, rpc>>
vars == <<seen_urls, seen_titles, pc, articles, idx, unique,
          duplicates_removed, result, pre_urls, pre_titles, kept,
          rejected, last, submitted,
          url_parts, url_in, url_out, url_out2, upc,
          title_a, title_b, norm1, norm1_again, ratio12, ratio21,
          similar_seen, tpc,
          run, ppc, dry_run, tasks, closed, fetched, failed, finished,
          run_articles, unavailable_sources, handed, digest, db_at_start,
          db_articles, db_source_health, db_briefings, raised,
          first_batch, first_result, first_urls, first_titles, rpc>>

-----------------------------------------------------------------------------
(* Characters *)

UpperChars == <<"A","B","C","D","E","F","G","H","I","J","K","L","M",
                "N","O","P","Q","R","S","T","U","V","W","X","Y","Z">>
LowerChars == <<"a","b","c","d","e","f","g","h","i","j","k","l","m",
                "n","o","p","q","r","s","t","u","v","w","x","y","z">>
DigitChars == <<"0","1","2","3","4","5","6","7","8","9">>

\* The ASCII characters the model uses, in code-point order.
AsciiOrder == <<" ", "!", "#", "%", "&", "+", "-", ".", "/">> \o DigitChars
              \o <<":", ";", "=", "?">> \o UpperChars \o <<"[", "]", "_">>
              \o LowerChars \o <<"~">>

Range(s) == {s[i] : i \in DOMAIN s}

\* ord(c), up to an order-preserving renumbering
Ord(c) == CHOOSE i \in DOMAIN AsciiOrder : AsciiOrder[i] = c

\* str.lower() on one character
LowerChar(c) ==
    IF c \in Range(UpperChars)
    THEN LowerChars[CHOOSE i \in DOMAIN UpperChars : UpperChars[i] = c]
    ELSE c

\* str.lower()
Lower(s) == [i \in DOMAIN s |-> LowerChar(s[i])]

\* Python's str < str: lexicographic by code point
RECURSIVE StrLess(_, _)
StrLess(s, t) ==
    IF t = <<>> THEN FALSE
    ELSE IF s = <<>> THEN TRUE
    ELSE IF s[1] # t[1] THEN Ord(s[1]) < Ord(t[1])
    ELSE StrLess(Tail(s), Tail(t))

-----------------------------------------------------------------------------
(* String operations of Python used by the code *)

Has(s, c) == \E i \in DOMAIN s : s[i] = c

\* s.find(c, start) with 1-based positions; 0 when absent
Find(s, c, start) ==
    IF \E i \in start..Len(s) : s[i] = c
    THEN CHOOSE i \in start..Len(s) :
            s[i] = c /\ \A j \in start..(i-1) : s[j] # c
    ELSE 0

\* s.rfind(c) with 1-based positions; 0 when absent
RFind(s, c) ==
    IF Has(s, c)
    THEN CHOOSE i \in DOMAIN s : s[i] = c /\ \A j \in (i+1)..Len(s) : s[j] # c
    ELSE 0

Take(s, n) == SubSeq(s, 1, n)
Drop(s, n) == SubSeq(s, n + 1, Len(s))

\* s.rstrip(c)
RECURSIVE RStrip(_, _)
RStrip(s, c) ==
    IF s # <<>> /\ s[Len(s)] = c THEN RStrip(Take(s, Len(s) - 1), c) ELSE s

\* s.lstrip(chars)
RECURSIVE LStrip(_, _)
LStrip(s, cs) ==
    IF s # <<>> /\ s[1] \in cs THEN LStrip(Tail(s), cs) ELSE s

\* s.replace(c, "") for every c in cs
RemoveChars(s, cs) == SelectSeq(s, LAMBDA c : c \notin cs)

\* s.replace(c, d)
ReplaceChar(s, c, d) == [i \in DOMAIN s |-> IF s[i] = c THEN d ELSE s[i]]

\* s.split(c): the pieces between the occurrences of c
RECURSIVE Split(_, _)
Split(s, c) ==
    LET i == Find(s, c, 1)
    IN  IF i = 0 THEN <<s>>
        ELSE <<Take(s, i - 1)>> \o Split(Drop(s, i), c)

\* s.split(c, 1)
Split1(s, c) ==
    LET i == Find(s, c, 1)
    IN  IF i = 0 THEN <<s>> ELSE <<Take(s, i - 1), Drop(s, i)>>

\* c.join(pieces)
RECURSIVE Join(_, _)
Join(pieces, c) ==
    IF pieces = <<>> THEN <<>>
    ELSE IF Len(pieces) = 1 THEN pieces[1]
    ELSE pieces[1] \o <<c>> \o Join(Tail(pieces), c)

RECURSIVE Flatten(_)
Flatten(ss) == IF ss = <<>> THEN <<>> ELSE ss[1] \o Flatten(Tail(ss))

-----------------------------------------------------------------------------
(* urllib.parse, as far as normalize_url uses it *)

\* urllib.parse.uses_netloc
uses_netloc == {
    <<>>,
    <<"f","t","p">>,
    <<"h","t","t","p">>,
    <<"g","o","p","h","e","r">>,
    <<"n","n","t","p">>,
    <<"t","e","l","n","e","t">>,
    <<"i","m","a","p">>,
    <<"w","a","i","s">>,
    <<"f","i","l","e">>,
    <<"m","m","s">>,
    <<"h","t","t","p","s">>,
    <<"s","h","t","t","p">>,
    <<"s","n","e","w","s">>,
    <<"p","r","o","s","p","e","r","o">>,
    <<"r","t","s","p">>,
    <<"r","t","s","p","s">>,
    <<"r","t","s","p","u">>,
    <<"r","s","y","n","c">>,
    <<"s","v","n">>,
    <<"s","v","n","+","s","s","h">>,
    <<"s","f","t","p">>,
    <<"n","f","s">>,
    <<"g","i","t">>,
    <<"g","i","t","+","s","s","h">>,
    <<"w","s">>,
    <<"w","s","s">> }

\* urllib.parse.uses_params
uses_params == {
    <<>>,
    <<"f","t","p">>,
    <<"h","d","l">>,
    <<"p","r","o","s","p","e","r","o">>,
    <<"h","t","t","p">>,
    <<"i","m","a","p">>,
    <<"h","t","t","p","s">>,
    <<"s","h","t","t","p">>,
    <<"r","t","s","p">>,
    <<"r","t","s","p","s">>,
    <<"r","t","s","p","u">>,
    <<"s","i","p">>,
    <<"s","i","p","s">>,
    <<"m","m","s">>,
    <<"s","f","t","p">>,
    <<"t","e","l">> }

\* urllib.parse.scheme_chars
scheme_chars == Range(LowerChars) \cup Range(UpperChars) \cup Range(DigitChars)
                \cup {"+", "-", "."}

\* urllib.parse._ALWAYS_SAFE: the characters quote() never escapes
ALWAYS_SAFE == Range(LowerChars) \cup Range(UpperChars) \cup Range(DigitChars)
               \cup {"_", ".", "-", "~"}

\* The %XX escape of each character of AsciiOrder that quote() escapes.
PctTable == <<
    <<" ", "2", "0">>, <<"!", "2", "1">>, <<"#", "2", "3">>, <<"%", "2", "5">>,
    <<"&", "2", "6">>, <<"+", "2", "B">>, <<"/", "2", "F">>, <<":", "3", "A">>,
    <<";", "3", "B">>, <<"=", "3", "D">>, <<"?", "3", "F">>, <<"[", "5", "B">>,
    <<"]", "5", "D">> >>

HexDigits == Range(DigitChars) \cup {"a","b","c","d","e","f","A","B","C","D","E","F"}

UpperChar(c) ==
    IF c \in Range(LowerChars)
    THEN UpperChars[CHOOSE i \in DOMAIN LowerChars : LowerChars[i] = c]
    ELSE c

\* A decoded byte that is none of the characters of AsciiOrder.
OtherByte == "\\x"

\* urllib.parse.unquote: %XX -> character; a % not followed by two hex
\* digits stays as it is.
\* the character of the escape %h1h2
unquote_byte(h1, h2) ==
    IF \E i \in DOMAIN PctTable : PctTable[i][2] = h1 /\ PctTable[i][3] = h2
    THEN PctTable[CHOOSE i \in DOMAIN PctTable :
                      PctTable[i][2] = h1 /\ PctTable[i][3] = h2][1]
    ELSE OtherByte

RECURSIVE unquote(_)
unquote(s) ==
    IF s = <<>> THEN <<>>
    ELSE IF s[1] = "%" /\ Len(s) >= 3 /\ s[2] \in HexDigits /\ s[3] \in HexDigits
    THEN <<unquote_byte(UpperChar(s[2]), UpperChar(s[3]))>> \o unquote(Drop(s, 3))
    ELSE <<s[1]>> \o unquote(Tail(s))

\* quote_plus on one character
quote_char(c) ==
    IF c \in ALWAYS_SAFE THEN <<c>>
    ELSE IF c = " " THEN <<"+">>
    ELSE <<"%">> \o Tail(PctTable[CHOOSE j \in DOMAIN PctTable : PctTable[j][1] = c])

\* urllib.parse.quote_plus(s) with safe = ''
quote_plus(s) == Flatten([i \in DOMAIN s |-> quote_char(s[i])])

\* urllib.parse._splitnetloc(url, 2): (domain, rest), url starting with //
splitnetloc(url) ==
    IF \E i \in 3..Len(url) : url[i] \in {"/", "?", "#"}
    THEN LET delim == CHOOSE i \in 3..Len(url) :
                          /\ url[i] \in {"/", "?", "#"}
                          /\ \A j \in 3..(i - 1) : url[j] \notin {"/", "?", "#"}
         IN  <<SubSeq(url, 3, delim - 1), SubSeq(url, delim, Len(url))>>
    ELSE <<SubSeq(url, 3, Len(url)), <<>>>>

\* urllib.parse._WHATWG_C0_CONTROL_OR_SPACE and _UNSAFE_URL_BYTES_TO_REMOVE,
\* as far as AsciiOrder has them
C0_CONTROL_OR_SPACE == {" ", "\t", "\n", "\r"}
UNSAFE_URL_BYTES_TO_REMOVE == {"\t", "\r", "\n"}

\* url[:2] == '//'
StartsWithSlashes(url) == Len(url) >= 2 /\ url[1] = "/" /\ url[2] = "/"

\* urlsplit, last part: the fragment is cut at the first #, then the query
\* at the first ?
urlsplit_query(err, scheme, netloc, url) ==
    LET fr == Split1(url, "#")
        qr == Split1(fr[1], "?")
    IN  [err |-> err, scheme |-> scheme, netloc |-> netloc, path |-> qr[1],
         query |-> IF Len(qr) = 2 THEN qr[2] ELSE <<>>,
         fragment |-> IF Len(fr) = 2 THEN fr[2] ELSE <<>>]

\* urlsplit, after _splitnetloc: err is TRUE where urlsplit raises
\* ValueError("Invalid IPv6 URL"): a [ without ] in the netloc, or the reverse
urlsplit_checked(scheme, nl) ==
    urlsplit_query(Has(nl[1], "[") # Has(nl[1], "]"), scheme, nl[1], nl[2])

\* urlsplit, after the scheme: the netloc of a url starting with //
urlsplit_netloc(scheme, url) ==
    IF StartsWithSlashes(url)
    THEN urlsplit_checked(scheme, splitnetloc(url))
    ELSE urlsplit_query(FALSE, scheme, <<>>, url)

\* urlsplit: does the text before the first : make a scheme
has_scheme(url) ==
    LET i == Find(url, ":", 1)
    IN  /\ i > 1
        /\ url[1] \in Range(LowerChars) \cup Range(UpperChars)
        /\ \A j \in 1..(i - 1) : url[j] \in scheme_chars

\* urlsplit, after stripping: the scheme
urlsplit_scheme(url) ==
    IF has_scheme(url)
    THEN urlsplit_netloc(Lower(Take(url, Find(url, ":", 1) - 1)),
                         Drop(url, Find(url, ":", 1)))
    ELSE urlsplit_netloc(<<>>, url)

\* urllib.parse.urlsplit(url)
urlsplit(url) ==
    urlsplit_scheme(RemoveChars(LStrip(url, C0_CONTROL_OR_SPACE),
                                UNSAFE_URL_BYTES_TO_REMOVE))

\* urllib.parse._splitparams(url): (path, params)
splitparams(url) ==
    LET i == IF Has(url, "/") THEN Find(url, ";", RFind(url, "/"))
             ELSE Find(url, ";", 1)
    IN  IF i = 0 THEN <<url, <<>>>>
        ELSE <<Take(url, i - 1), Drop(url, i)>>

\* urlparse: the split result with the path cut into path and params
with_params(s, pp) ==
    [err |-> s.err, scheme |-> s.scheme, netloc |-> s.netloc,
     path |-> pp[1], params |-> pp[2], query |-> s.query,
     fragment |-> s.fragment]

urlparse_split(s) ==
    with_params(s, IF s.scheme \in uses_params /\ Has(s.path, ";")
                   THEN splitparams(s.path) ELSE <<s.path, <<>>>>)

\* urllib.parse.urlparse(url)
urlparse(url) == urlparse_split(urlsplit(url))

\* urllib.parse.parse_qsl(qs, keep_blank_values): list of (name, value)
\* one field name=value of the query, decoded
parse_field(nv) ==
    <<[name |-> unquote(ReplaceChar(nv[1], "+", " ")),
       value |-> unquote(ReplaceChar(nv[2], "+", " "))]>>

\* the loop body of parse_qsl for one field, split at its first =
parse_name_value(nv, keep_blank_values) ==
    IF Len(nv) # 2
    THEN (IF keep_blank_values THEN parse_field(<<nv[1], <<>>>>) ELSE <<>>)
    ELSE IF Len(nv[2]) > 0 \/ keep_blank_values THEN parse_field(nv)
    ELSE <<>>

RECURSIVE parse_fields(_, _)
parse_fields(fields, keep_blank_values) ==
    IF fields = <<>> THEN <<>>
    ELSE (IF fields[1] = <<>> THEN <<>>
          ELSE parse_name_value(Split1(fields[1], "="), keep_blank_values))
         \o parse_fields(Tail(fields), keep_blank_values)

parse_qsl(qs, keep_blank_values) ==
    IF qs = <<>> THEN <<>> ELSE parse_fields(Split(qs, "&"), keep_blank_values)

\* urllib.parse.parse_qs(qs, keep_blank_values): the dict name -> list of
\* values, as the sequence of its items in insertion order
add_pair(d, p) ==
    IF \E i \in DOMAIN d : d[i].k = p.name
    THEN [i \in DOMAIN d |->
            IF d[i].k = p.name
            THEN [k |-> d[i].k, v |-> Append(d[i].v, p.value)]
            ELSE d[i]]
    ELSE Append(d, [k |-> p.name, v |-> <<p.value>>])

RECURSIVE collect_pairs(_, _)
collect_pairs(pairs, d) ==
    IF pairs = <<>> THEN d
    ELSE collect_pairs(Tail(pairs), add_pair(d, pairs[1]))

parse_qs(qs, keep_blank_values) ==
    collect_pairs(parse_qsl(qs, keep_blank_values), <<>>)

\* sorted(d.items()): the keys of a dict are distinct, so the order of two
\* items is the order of their keys
RECURSIVE Insert(_, _)
Insert(sorted, e) ==
    IF sorted = <<>> THEN <<e>>
    ELSE IF StrLess(e.k, sorted[1].k) THEN <<e>> \o sorted
    ELSE <<sorted[1]>> \o Insert(Tail(sorted), e)

RECURSIVE sorted_items(_)
sorted_items(items) ==
    IF items = <<>> THEN <<>>
    ELSE Insert(sorted_items(Take(items, Len(items) - 1)), items[Len(items)])

\* urllib.parse.urlencode(items, doseq=True)
urlencode(items) ==
    Join(Flatten([i \in DOMAIN items |->
            [j \in DOMAIN items[i].v |->
                quote_plus(items[i].k) \o <<"=">> \o quote_plus(items[i].v[j])]]),
         "&")

\* urllib.parse.urlunsplit((scheme, netloc, url, query, fragment))
urlunsplit_tail(url, query, fragment) ==
    (IF query # <<>> THEN url \o <<"?">> \o query ELSE url)
    \o (IF fragment # <<>> THEN <<"#">> \o fragment ELSE <<>>)

urlunsplit_scheme(scheme, url, query, fragment) ==
    urlunsplit_tail(IF scheme # <<>> THEN scheme \o <<":">> \o url ELSE url,
                    query, fragment)

urlunsplit(scheme, netloc, url, query, fragment) ==
    urlunsplit_scheme(
        scheme,
        IF netloc # <<>>
           \/ (scheme # <<>> /\ scheme \in uses_netloc /\ ~StartsWithSlashes(url))
        THEN <<"/", "/">> \o netloc
             \o (IF url # <<>> /\ url[1] # "/" THEN <<"/">> ELSE <<>>) \o url
        ELSE url,
        query, fragment)

\* urllib.parse.urlunparse((scheme, netloc, url, params, query, fragment))
urlunparse(scheme, netloc, url, params, query, fragment) ==
    urlunsplit(scheme, netloc,
               IF params # <<>> THEN url \o <<";">> \o params ELSE url,
               query, fragment)

-----------------------------------------------------------------------------
(* Deduper: URL normalization *)

\* Deduper.STRIP_PARAMS
STRIP_PARAMS == {
    <<"u","t","m","_","s","o","u","r","c","e">>,
    <<"u","t","m","_","m","e","d","i","u","m">>,
    <<"u","t","m","_","c","a","m","p","a","i","g","n">>,
    <<"u","t","m","_","t","e","r","m">>,
    <<"u","t","m","_","c","o","n","t","e","n","t">>,
    <<"r","e","f">>,
    <<"s","o","u","r","c","e">>,
    <<"f","b","c","l","i","d">>,
    <<"g","c","l","i","d">>,
    <<"m","c","_","c","i","d">>,
    <<"m","c","_","e","i","d">> }

\* faulty variant of the comprehension: the key is compared as written
filtered_params_case_sensitive(query_params) ==
    SelectSeq(query_params, LAMBDA e : e.k \notin STRIP_PARAMS)

\* the dict comprehension of normalize_url: the items whose lower-cased key
\* is not in STRIP_PARAMS
filtered_params(query_params) ==
    SelectSeq(query_params, LAMBDA e : Lower(e.k) \notin STRIP_PARAMS)

\* normalize_url, lines 35-42: the query without the deny-listed
\* parameters, re-encoded in the order of its keys
sorted_query(query) ==
    urlencode(sorted_items(filtered_params(parse_qs(query, FALSE))))

\* faulty variant of normalize_url: a URL that cannot be parsed is replaced
\* by the empty string
normalize_parsed_empty(url, parsed) ==
    IF parsed.err THEN <<>>
    ELSE urlunparse(Lower(parsed.scheme), Lower(parsed.netloc),
                    RStrip(parsed.path, "/"), parsed.params,
                    sorted_query(parsed.query), <<>>)

\* normalize_url, lines 34-55, given the result of urlparse
normalize_parsed(url, parsed) ==
    IF parsed.err THEN url
    ELSE urlunparse(Lower(parsed.scheme), Lower(parsed.netloc),
                    RStrip(parsed.path, "/"), parsed.params,
                    sorted_query(parsed.query), <<>>)

\* Deduper.normalize_url
normalize_url(url) == normalize_parsed(url, urlparse(url))

-----------------------------------------------------------------------------
(* Deduper: title normalization and similarity *)

\* the characters \w matches, among those of AsciiOrder
WordChars == Range(LowerChars) \cup Range(UpperChars) \cup Range(DigitChars)
             \cup {"_"}

\* the characters \s matches and str.split() splits on
Whitespace == {" ", "\t", "\n", "\r"}

\* title.split(): the maximal runs of non-whitespace characters
RECURSIVE split_words(_, _)
split_words(s, word) ==
    IF s = <<>> THEN (IF word = <<>> THEN <<>> ELSE <<word>>)
    ELSE IF s[1] \in Whitespace
    THEN (IF word = <<>> THEN <<>> ELSE <<word>>) \o split_words(Tail(s), <<>>)
    ELSE split_words(Tail(s), Append(word, s[1]))

\* Deduper.normalize_title
normalize_title(title) ==
    LET lowered == Lower(title)
        stripped == SelectSeq(lowered, LAMBDA c : c \in WordChars \cup Whitespace)
    IN  Join(split_words(stripped, <<>>), " ")

\* length of the common run of a from i and b from j (0-based positions)
\* inside a[..ahi) and b[..bhi)
RECURSIVE run_length(_, _, _, _, _, _)
run_length(a, b, i, j, ahi, bhi) ==
    IF i < ahi /\ j < bhi /\ a[i + 1] = b[j + 1]
    THEN 1 + run_length(a, b, i + 1, j + 1, ahi, bhi)
    ELSE 0

\* difflib.SequenceMatcher.find_longest_match(alo, ahi, blo, bhi) without
\* junk: the longest block a[i:i+k] == b[j:j+k]; of the longest ones the one
\* starting earliest in a, and of those the one starting earliest in b
longest_of(size, cells) ==
    LET sizes == {size[c] : c \in cells} \cup {0}
    IN  CHOOSE k \in sizes : \A n \in sizes : n <= k

first_of(best) ==
    CHOOSE c \in best : \A d \in best : c[1] < d[1] \/ (c[1] = d[1] /\ c[2] <= d[2])

longest_match(size, cells, bestsize, alo, blo) ==
    IF bestsize = 0 THEN [i |-> alo, j |-> blo, k |-> 0]
    ELSE [i |-> first_of({c \in cells : size[c] = bestsize})[1],
          j |-> first_of({c \in cells : size[c] = bestsize})[2],
          k |-> bestsize]

longest_in(size, cells, alo, blo) ==
    longest_match(size, cells, longest_of(size, cells), alo, blo)

find_longest_match(a, b, alo, ahi, blo, bhi) ==
    longest_in([c \in (alo..(ahi - 1)) \X (blo..(bhi - 1)) |->
                    run_length(a, b, c[1], c[2], ahi, bhi)],
               (alo..(ahi - 1)) \X (blo..(bhi - 1)), alo, blo)

\* sum of the sizes of difflib.SequenceMatcher.get_matching_blocks()
RECURSIVE matching_size(_, _, _, _, _, _)
\* the block m and the blocks to its left and to its right
matching_around(a, b, alo, ahi, blo, bhi, m) ==
    IF m.k = 0 THEN 0
    ELSE m.k
         + (IF alo < m.i /\ blo < m.j
            THEN matching_size(a, b, alo, m.i, blo, m.j) ELSE 0)
         + (IF m.i + m.k < ahi /\ m.j + m.k < bhi
            THEN matching_size(a, b, m.i + m.k, ahi, m.j + m.k, bhi) ELSE 0)

matching_size(a, b, alo, ahi, blo, bhi) ==
    matching_around(a, b, alo, ahi, blo, bhi,
                    find_longest_match(a, b, alo, ahi, blo, bhi))

\* difflib.SequenceMatcher(None, a, b).ratio() as the fraction <<num, den>>:
\* 2.0 * matches / (len(a) + len(b)), and 1.0 when both are empty
ratio(a, b) ==
    IF Len(a) + Len(b) = 0 THEN <<1, 1>>
    ELSE <<2 * matching_size(a, b, 0, Len(a), 0, Len(b)), Len(a) + Len(b)>>

\* Deduper.TITLE_SIMILARITY_THRESHOLD = 0.85, as a fraction
TITLE_SIMILARITY_THRESHOLD == <<85, 100>>

\* faulty variant of the comparison with the threshold: r > q
FracGT(r, q) == r[1] * q[2] > q[1] * r[2]

\* r >= q for fractions with positive denominators
FracGE(r, q) == r[1] * q[2] >= q[1] * r[2]

\* Deduper.title_similarity
title_similarity(title1, title2) ==
    ratio(normalize_title(title1), normalize_title(title2))

-----------------------------------------------------------------------------
(* The URL strings normalize_url is studied on: scheme and host, path,
   query fields joined by &, fragment. *)

\* scheme and network location; the third makes urlsplit raise
UrlPrefixes == {
    <<"h","t","t","p",":","/","/","a",".","c","o","m">>,  \* 'http://a.com'
    <<"H","T","T","P","S",":","/","/","A",".","c","o","m">>, \* 'HTTPS://A.com'
    <<"h","t","t","p",":","/","/","[","a">> }             \* 'http://[a'

\* path, with and without trailing slash and ;parameters
UrlPaths == {
    <<>>,                                              \* ''
    <<"/">>,                                           \* '/'
    <<"/","x">>,                                       \* '/x'
    <<"/","x","/">>,                                   \* '/x/'
    <<"/","x","/",";","p","/">>,                       \* '/x/;p/'
    <<"/","X",";","p">> }                              \* '/X;p'

\* raw query fields: kept, repeated key, escaped value, blank value,
\* no value, deny-listed names
QueryFields == {
    <<"a","=","1">>,                                   \* 'a=1'
    <<"a","=","2">>,                                   \* 'a=2'
    <<"B","=","/">>,                                   \* 'B=/'
    <<"a","=">>,                                       \* 'a='
    <<"c">>,                                           \* 'c'
    <<"r","e","f","=","1">>,                           \* 'ref=1'
    <<"U","t","m","_","T","e","r","m","=","2">> }      \* 'Utm_Term=2'

\* fragment
UrlFragments == {
    <<>>,                                              \* ''
    <<"#","f">> }                                      \* '#f'

\* at most this many fields in a query
MaxParams == 2

RECURSIVE SeqsUpTo(_, _)
SeqsUpTo(S, n) ==
    IF n = 0 THEN {<<>>}
    ELSE LET shorter == SeqsUpTo(S, n - 1)
         IN  shorter \cup {Append(s, x) : s \in shorter, x \in S}

UrlParts == [prefix : UrlPrefixes, path : UrlPaths,
             fields : SeqsUpTo(QueryFields, MaxParams), fragment : UrlFragments]

\* the URL string made of the parts
Render(p) ==
    p.prefix \o p.path
    \o (IF p.fields = <<>> THEN <<>> ELSE <<"?">> \o Join(p.fields, "&"))
    \o p.fragment

-----------------------------------------------------------------------------
(* Deduper: the engine *)

\* URLs of the candidates studied
U_x == <<"h","t","t","p",":","/","/","a",".","c","o","m","/","x">>
    \* http://a.com/x
U_x_tracked == <<"H","T","T","P",":","/","/","A",".","c","o","m","/","x","/","?","r","e","f","=","1","#","t","o","p">>
    \* HTTP://A.com/x/?ref=1#top
U_y == <<"h","t","t","p",":","/","/","a",".","c","o","m","/","y">>
    \* http://a.com/y
U_z == <<"h","t","t","p",":","/","/","a",".","c","o","m","/","z">>
    \* http://a.com/z
U_w == <<"h","t","t","p",":","/","/","a",".","c","o","m","/","w">>
    \* http://a.com/w

\* titles of the candidates studied
U_bad == <<"h","t","t","p",":","/","/","[","a","/","x">>
    \* http://[a/x (urlsplit raises ValueError)
T_giants == <<"G","i","a","n","t","s"," ","W","i","n"," ","B","i","g">>
    \* Giants Win Big
T_giants2 == <<"G","i","a","n","t","s"," ","w","i","n"," ","b","i","g","!">>
    \* Giants win big!
T_rain == <<"R","a","i","n">>
    \* Rain
T_snow == <<"S","n","o","w">>
    \* Snow
T_first == <<"a","a","a","a","a","b","a">>
    \* aaaaaba
T_second == <<"a","a","b","a","a","a","b">>
    \* aabaaab

T_storm1 == <<"S","t","o","r","m"," ","h","i","t","s"," ","c","o","a","s","t"," ","1","0","1">>
    \* Storm hits coast 101
T_storm2 == <<"S","t","o","r","m"," ","h","i","t","s"," ","c","o","a","s","t"," ","2","3","4">>
    \* Storm hits coast 234
T_hello == <<" "," ","H","e","l","l","o",",","\t","W","o","r","l","d","!"," ">>
    \* '  Hello,<tab>World! '
T_snake == <<"s","n","a","k","e","_","c","a","s","e"," ","w","i","n","s">>
    \* snake_case wins
T_marks == <<"?","!">>
    \* ?!

\* Article(url, title): the two fields of collectors.base.Article the
\* Deduper reads
Article(url, title) == [url |-> url, title |-> title]

\* The candidates: a story, the same story under another URL with a
\* reworded title, the same URL with tracking noise under another title,
\* two further stories whose titles are close to each other, and two
\* stories under one URL that cannot be parsed.
Articles == { Article(U_x, T_giants), Article(U_y, T_giants2),
              Article(U_x_tracked, T_rain),
              Article(U_z, T_first), Article(U_w, T_second),
              Article(U_bad, T_snow), Article(U_bad, T_rain) }

\* The titles normalize_title and title_similarity are studied on: the
\* titles of the candidates, two titles that share 17 of 20 characters,
\* one with surrounding and repeated whitespace and punctuation, one with an
\* underscore, one of punctuation only.
Titles == {a.title : a \in Articles}
          \cup {T_storm1, T_storm2, T_hello, T_snake, T_marks}

\* the candidates recorded with mark_seen before is_similar_to_seen is
\* called in the title study
TitleArticles == { Article(U_z, T_first), Article(U_y, T_storm2),
                   Article(U_x, T_giants) }

\* longest seen-title history of the title study
MaxSeenTitles == 2

\* longest list handed to deduplicate
MaxBatch == 3
\* number of articles handed to one Deduper (by deduplicate and mark_seen)
MaxSubmitted == 3

Batches == SeqsUpTo(Articles, MaxBatch)

\* a value of the normalize_url study that is not set (yet)
Unset == <<"unset">>
NoParts == [prefix |-> <<>>, path |-> <<>>, fields |-> <<>>, fragment |-> <<>>]

\* normalize_url and the comparison of title_similarity with the threshold,
\* computed once for the candidates studied
normalized == [u \in {a.url : a \in Articles} |-> normalize_url(u)]
similar == [t1 \in Titles, t2 \in Titles |->
               FracGE(title_similarity(t1, t2), TITLE_SIMILARITY_THRESHOLD)]

\* Deduper.is_similar_to_seen
is_similar_to_seen(title) ==
    \E i \in DOMAIN seen_titles : similar[title, seen_titles[i]]

\* faulty variant of is_duplicate: the title check is left out
is_duplicate_url_only(article) == normalized[article.url] \in seen_urls

\* Deduper.is_duplicate
is_duplicate(article) ==
    \/ normalized[article.url] \in seen_urls
    \/ is_similar_to_seen(article.title)

\* faulty variant of mark_seen: the set is assigned instead of extended
mark_seen_urls_replace(article) == {normalized[article.url]}

\* Deduper.mark_seen: the new _seen_urls
mark_seen_urls(article) == seen_urls \cup {normalized[article.url]}

\* faulty variant of mark_seen: the normalized title is recorded
mark_seen_titles_normalized(article) ==
    Append(seen_titles, normalize_title(article.title))

\* Deduper.mark_seen: the new _seen_titles
mark_seen_titles(article) == Append(seen_titles, article.title)

\* Deduper.mark_seen
mark_seen(article) ==
    /\ seen_urls' = mark_seen_urls(article)
    /\ seen_titles' = mark_seen_titles(article)

\* faulty variant of deduplicate: unique.insert(0, article)
prepend_unique(article) == <<article>> \o unique

\* Deduper.deduplicate: unique.append(article)
append_unique(article) == Append(unique, article)

\* faulty variant of reset: _seen_titles is not cleared
reset_titles_kept == seen_titles

\* Deduper.reset: the cleared _seen_urls and _seen_titles
reset_urls == {}
reset_titles == <<>>

\* Deduper.__init__, and a caller that has called nothing yet
DeduperInit ==
    /\ seen_urls = {}
    /\ seen_titles = <<>>
    /\ pc = "idle"
    /\ articles = <<>>
    /\ idx = 0
    /\ unique = <<>>
    /\ duplicates_removed = 0
    /\ result = <<>>
    /\ pre_urls = {}
    /\ pre_titles = <<>>
    /\ kept = <<>>
    /\ rejected = {}
    /\ last = "init"
    /\ submitted = 0

UrlIdle ==
    /\ url_parts = NoParts
    /\ url_in = Unset
    /\ url_out = Unset
    /\ url_out2 = Unset
    /\ upc = "off"

TitleIdle ==
    /\ title_a = Unset
    /\ title_b = Unset
    /\ norm1 = Unset
    /\ norm1_again = Unset
    /\ ratio12 = Unset
    /\ ratio21 = Unset
    /\ similar_seen = Unset
    /\ tpc = "off"

\* no pipeline is run
PipeIdle ==
    /\ run = 0
    /\ ppc = "off"
    /\ dry_run = FALSE
    /\ tasks = <<>>
    /\ closed = <<>>
    /\ fetched = <<>>
    /\ failed = {}
    /\ finished = <<>>
    /\ run_articles = <<>>
    /\ unavailable_sources = <<>>
    /\ handed = <<>>
    /\ digest = <<>>
    /\ db_at_start = {}
    /\ db_articles = {}
    /\ db_source_health = {}
    /\ db_briefings = <<>>
    /\ raised = FALSE

\* no repeated calls are studied
RepeatIdle ==
    /\ first_batch = <<>>
    /\ first_result = <<>>
    /\ first_urls = {}
    /\ first_titles = <<>>
    /\ rpc = "off"

Init == DeduperInit /\ UrlIdle /\ TitleIdle /\ PipeIdle /\ RepeatIdle

\* deduplicate(batch) is called: lines 105-106
\* faulty variant of deduplicate: the seen state is cleared when the call
\* starts
deduplicate_begin_clearing(batch) ==
    /\ pc = "idle"
    /\ pc' = "loop"
    /\ articles' = batch
    /\ idx' = 1
    /\ unique' = <<>>
    /\ duplicates_removed' = 0
    /\ result' = <<>>
    /\ pre_urls' = {}
    /\ pre_titles' = <<>>
    /\ kept' = <<>>
    /\ last' = "deduplicate"
    /\ seen_urls' = {}
    /\ seen_titles' = <<>>
    /\ UNCHANGED rejected

deduplicate_begin(batch) ==
    /\ pc = "idle"
    /\ pc' = "loop"
    /\ articles' = batch
    /\ idx' = 1
    /\ unique' = <<>>
    /\ duplicates_removed' = 0
    /\ result' = <<>>
    /\ pre_urls' = seen_urls
    /\ pre_titles' = seen_titles
    /\ kept' = <<>>
    /\ last' = "deduplicate"
    /\ UNCHANGED <<seen_urls, seen_titles, rejected>>

\* a caller calls deduplicate(batch)
deduplicate_call(batch) ==
    /\ submitted + Len(batch) <= MaxSubmitted
    /\ deduplicate_begin(batch)
    /\ submitted' = submitted + Len(batch)

\* faulty variant of the for loop of deduplicate: mark_seen is called for
\* a rejected candidate too
deduplicate_loop_marking_rejected ==
    /\ pc = "loop"
    /\ idx <= Len(articles)
    /\ mark_seen(articles[idx])
    /\ IF is_duplicate(articles[idx])
       THEN /\ duplicates_removed' = duplicates_removed + 1
            /\ rejected' = rejected \cup {articles[idx]}
            /\ last' = "rejected"
            /\ UNCHANGED <<unique, kept>>
       ELSE /\ unique' = append_unique(articles[idx])
            /\ kept' = Append(kept, idx)
            /\ last' = "accepted"
            /\ UNCHANGED <<duplicates_removed, rejected>>
    /\ idx' = idx + 1
    /\ UNCHANGED <<pc, articles, result, pre_urls, pre_titles, submitted>>

\* one iteration of the for loop of deduplicate: lines 108-114
deduplicate_loop ==
    /\ pc = "loop"
    /\ idx <= Len(articles)
    /\ LET article == articles[idx]
       IN  IF is_duplicate(article)
           THEN /\ duplicates_removed' = duplicates_removed + 1
                /\ rejected' = rejected \cup {article}
                /\ last' = "rejected"
                /\ UNCHANGED <<seen_urls, seen_titles, unique, kept>>
           ELSE /\ mark_seen(article)
                /\ unique' = append_unique(article)
                /\ kept' = Append(kept, idx)
                /\ last' = "accepted"
                /\ UNCHANGED <<duplicates_removed, rejected>>
    /\ idx' = idx + 1
    /\ UNCHANGED <<pc, articles, result, pre_urls, pre_titles, submitted>>

\* deduplicate returns unique: lines 116-119
deduplicate_return ==
    /\ pc = "loop"
    /\ idx > Len(articles)
    /\ pc' = "idle"
    /\ result' = unique
    /\ articles' = <<>>
    /\ idx' = 0
    /\ unique' = <<>>
    /\ duplicates_removed' = 0
    /\ pre_urls' = {}
    /\ pre_titles' = <<>>
    /\ kept' = <<>>
    /\ last' = "return"
    /\ UNCHANGED <<seen_urls, seen_titles, rejected, submitted>>

Locals == <<articles, idx, unique, duplicates_removed, pre_urls, pre_titles, kept>>

\* a caller calls mark_seen(article)
call_mark_seen(article) ==
    /\ pc = "idle"
    /\ submitted < MaxSubmitted
    /\ mark_seen(article)
    /\ result' = <<>>
    /\ last' = "mark_seen"
    /\ submitted' = submitted + 1
    /\ UNCHANGED <<pc, rejected>>
    /\ UNCHANGED Locals

\* a caller calls is_duplicate(article)
call_is_duplicate(article) ==
    /\ pc = "idle"
    /\ result' = <<is_duplicate(article)>>
    /\ last' = "is_duplicate"
    /\ UNCHANGED <<seen_urls, seen_titles, pc, rejected, submitted>>
    /\ UNCHANGED Locals

\* a caller calls is_similar_to_seen(title)
call_is_similar_to_seen(title) ==
    /\ pc = "idle"
    /\ result' = <<is_similar_to_seen(title)>>
    /\ last' = "is_similar_to_seen"
    /\ UNCHANGED <<seen_urls, seen_titles, pc, rejected, submitted>>
    /\ UNCHANGED Locals

\* Deduper.reset
reset ==
    /\ pc = "idle"
    /\ seen_urls' = reset_urls
    /\ seen_titles' = reset_titles
    /\ result' = <<>>
    /\ last' = "reset"
    /\ UNCHANGED <<pc, rejected, submitted>>
    /\ UNCHANGED Locals

Next ==
    \/ \E batch \in Batches : deduplicate_call(batch) /\ UNCHANGED <<url_vars, title_vars, pipe_vars, repeat_vars>>
    \/ deduplicate_loop /\ UNCHANGED <<url_vars, title_vars, pipe_vars, repeat_vars>>
    \/ deduplicate_return /\ UNCHANGED <<url_vars, title_vars, pipe_vars, repeat_vars>>
    \/ \E article \in Articles : call_mark_seen(article) /\ UNCHANGED <<url_vars, title_vars, pipe_vars, repeat_vars>>
    \/ \E article \in Articles : call_is_duplicate(article) /\ UNCHANGED <<url_vars, title_vars, pipe_vars, repeat_vars>>
    \/ \E article \in Articles :
            call_is_similar_to_seen(article.title)
            /\ UNCHANGED <<url_vars, title_vars, pipe_vars, repeat_vars>>
    \/ reset /\ UNCHANGED <<url_vars, title_vars, pipe_vars, repeat_vars>>

Spec == Init /\ [][Next]_vars

-----------------------------------------------------------------------------
(* normalize_url applied to the URL strings, once and again *)

DeduperIdle == DeduperInit

InitUrl ==
    /\ DeduperIdle
    /\ TitleIdle
    /\ PipeIdle
    /\ RepeatIdle
    /\ url_parts \in UrlParts
    /\ url_in = Render(url_parts)
    /\ url_out = Unset
    /\ url_out2 = Unset
    /\ upc = "input"

\* normalize_url(url_in)
apply_normalize_url ==
    /\ upc = "input"
    /\ url_out' = normalize_url(url_in)
    /\ upc' = "once"
    /\ UNCHANGED <<url_parts, url_in, url_out2>>
    /\ UNCHANGED <<dedup_vars, title_vars, pipe_vars, repeat_vars>>

\* normalize_url(normalize_url(url_in))
apply_normalize_url_again ==
    /\ upc = "once"
    /\ url_out2' = normalize_url(url_out)
    /\ upc' = "twice"
    /\ UNCHANGED <<url_parts, url_in, url_out>>
    /\ UNCHANGED <<dedup_vars, title_vars, pipe_vars, repeat_vars>>

NextUrl == apply_normalize_url \/ apply_normalize_url_again

SpecUrl == InitUrl /\ [][NextUrl]_vars

-----------------------------------------------------------------------------
(* normalize_title, title_similarity and is_similar_to_seen applied to the
   titles: a caller normalizes a title, compares two titles in both
   argument orders, records candidates with mark_seen and asks whether the
   first title is similar to a seen one. *)

InitTitle ==
    /\ DeduperIdle
    /\ UrlIdle
    /\ PipeIdle
    /\ RepeatIdle
    /\ title_a \in Titles
    /\ title_b \in Titles
    /\ norm1 = Unset
    /\ norm1_again = Unset
    /\ ratio12 = Unset
    /\ ratio21 = Unset
    /\ similar_seen = Unset
    /\ tpc = "input"

\* normalize_title(title_a) and normalize_title of the result
apply_normalize_title ==
    /\ tpc = "input"
    /\ norm1' = normalize_title(title_a)
    /\ norm1_again' = normalize_title(normalize_title(title_a))
    /\ tpc' = "normalized"
    /\ UNCHANGED <<title_a, title_b, ratio12, ratio21, similar_seen>>
    /\ UNCHANGED <<dedup_vars, url_vars, pipe_vars, repeat_vars>>

\* title_similarity(title_a, title_b) and title_similarity(title_b, title_a)
apply_title_similarity ==
    /\ tpc = "normalized"
    /\ ratio12' = title_similarity(title_a, title_b)
    /\ ratio21' = title_similarity(title_b, title_a)
    /\ tpc' = "compared"
    /\ UNCHANGED <<title_a, title_b, norm1, norm1_again, similar_seen>>
    /\ UNCHANGED <<dedup_vars, url_vars, pipe_vars, repeat_vars>>

\* mark_seen(article), which extends the seen-title history
title_mark_seen(article) ==
    /\ tpc = "compared"
    /\ Len(seen_titles) < MaxSeenTitles
    /\ mark_seen(article)
    /\ last' = "mark_seen"
    /\ UNCHANGED <<pc, result, rejected, submitted>>
    /\ UNCHANGED Locals
    /\ UNCHANGED <<title_vars, url_vars, pipe_vars, repeat_vars>>

\* is_similar_to_seen(title_a)
apply_is_similar_to_seen ==
    /\ tpc = "compared"
    /\ similar_seen' = is_similar_to_seen(title_a)
    /\ tpc' = "asked"
    /\ UNCHANGED <<title_a, title_b, norm1, norm1_again, ratio12, ratio21>>
    /\ UNCHANGED <<dedup_vars, url_vars, pipe_vars, repeat_vars>>

NextTitle ==
    \/ apply_normalize_title
    \/ apply_title_similarity
    \/ \E article \in TitleArticles : title_mark_seen(article)
    \/ apply_is_similar_to_seen

SpecTitle == InitTitle /\ [][NextTitle]_vars

-----------------------------------------------------------------------------
(* main.py: run_pipeline, collect_articles and collect_from_source, with the
   Database they use.  The collection tasks of one run interleave at their
   awaits; everything after asyncio.run is sequential.  Of an article the
   pipeline reads url, title, source and published_at; published_at is kept
   as the age in days at the time of the run, <<>> for None. *)

\* two of the enabled RSS sources of config.RSS_SOURCES, in their order
Sources == <<"NYT", "Guardian">>

\* max_age_days of filter_recent_articles, as run_pipeline passes it
max_age_days == 7

\* number of pipeline runs
MaxRuns == 2

FeedArticle(url, title, source, age) ==
    [url |-> url, title |-> title, source |-> source, published_at |-> age]

\* articles of the feeds: an old story and a fresh one under a URL with
\* tracking noise; the old story reworded and fresh, and an undated story
\* under the clean form of the noisy URL
A_old == FeedArticle(U_x, T_giants, "NYT", <<8>>)
A_noisy == FeedArticle(U_x_tracked, T_rain, "NYT", <<0>>)
A_reworded == FeedArticle(U_y, T_giants2, "Guardian", <<7>>)
A_clean == FeedArticle(U_x, T_first, "Guardian", <<>>)

\* what collector.collect() of a source can return
Feeds(source) ==
    IF source = "NYT"
    THEN {<<>>, <<A_old>>, <<A_noisy>>, <<A_old, A_noisy>>}
    ELSE {<<>>, <<A_reworded>>, <<A_clean>>, <<A_reworded, A_clean>>}

\* Database.is_article_seen
is_article_seen(rows, url) == \E r \in rows : r.url = url

\* Database.save_article: INSERT OR IGNORE on the unique column url
save_article(rows, article) ==
    IF is_article_seen(rows, article.url) THEN rows
    ELSE rows \cup {[url |-> article.url, title |-> article.title,
                     source |-> article.source]}

\* run_pipeline, lines 134-140: save_article for every article
RECURSIVE save_articles(_, _)
save_articles(rows, list) ==
    IF list = <<>> THEN rows
    ELSE save_articles(save_article(rows, Head(list)), Tail(list))

\* filter_recent_articles
filter_recent_articles(list) ==
    SelectSeq(list, LAMBDA a : \/ a.published_at = <<>>
                               \/ a.published_at[1] <= max_age_days)

\* collect_from_source, line 32: the articles the store has not seen
new_articles(source_articles) ==
    SelectSeq(source_articles, LAMBDA a : ~is_article_seen(db_articles, a.url))

\* the return value of collect_from_source: the articles, and <<>> for None
\* or <<name>> for the name of the failed source
ok_result(source_articles) == <<new_articles(source_articles), <<>>>>

\* faulty variant of the except branch: the name is not returned
failed_result_unnamed(source_name) == <<<<>>, <<>>>>

failed_result(source_name) == <<<<>>, <<source_name>>>>

\* faulty variant of collect_articles: the results in the order in which
\* the tasks have ended
RECURSIVE aggregate_as_completed(_, _, _)
aggregate_as_completed(results, field, i) ==
    IF i > Len(finished) THEN <<>>
    ELSE results[finished[i]].result[field]
         \o aggregate_as_completed(results, field, i + 1)

\* collect_articles, lines 67-73: the results in the order of the tasks
RECURSIVE aggregate(_, _, _)
aggregate(results, field, i) ==
    IF i > Len(Sources) THEN <<>>
    ELSE results[Sources[i]].result[field] \o aggregate(results, field, i + 1)

\* Deduper(): the engine after construction
Deduper_new ==
    /\ seen_urls' = {}
    /\ seen_titles' = <<>>
    /\ pc' = "idle"
    /\ articles' = <<>>
    /\ idx' = 0
    /\ unique' = <<>>
    /\ duplicates_removed' = 0
    /\ result' = <<>>
    /\ pre_urls' = {}
    /\ pre_titles' = <<>>
    /\ kept' = <<>>
    /\ rejected' = {}
    /\ last' = "init"
    /\ submitted' = 0

InitPipe ==
    /\ DeduperInit
    /\ UrlIdle
    /\ TitleIdle
    /\ RepeatIdle
    /\ run = 0
    /\ ppc = "done"
    /\ dry_run = FALSE
    /\ tasks = [s \in Range(Sources) |-> [at |-> "done", result |-> <<<<>>, <<>>>>]]
    /\ closed = [s \in Range(Sources) |-> 0]
    /\ fetched = [s \in Range(Sources) |-> <<>>]
    /\ failed = {}
    /\ finished = <<>>
    /\ run_articles = <<>>
    /\ unavailable_sources = <<>>
    /\ handed = <<>>
    /\ digest = <<>>
    /\ db_at_start = {}
    /\ db_articles = {}
    /\ db_source_health = {}
    /\ db_briefings = <<>>
    /\ raised = FALSE

\* run_pipeline(dry_run), lines 100-111 and collect_articles, lines 46-65:
\* the components are built and one task per source is started, each running
\* up to its await of collector.collect()
run_pipeline(d) ==
    /\ ppc = "done"
    /\ run < MaxRuns
    /\ run' = run + 1
    /\ ppc' = "collecting"
    /\ dry_run' = d
    /\ Deduper_new
    /\ tasks' = [s \in Range(Sources) |-> [at |-> "collect", result |-> <<<<>>, <<>>>>]]
    /\ closed' = [s \in Range(Sources) |-> 0]
    /\ fetched' = [s \in Range(Sources) |-> <<>>]
    /\ failed' = {}
    /\ finished' = <<>>
    /\ run_articles' = <<>>
    /\ unavailable_sources' = <<>>
    /\ handed' = <<>>
    /\ digest' = <<>>
    /\ db_at_start' = db_articles
    /\ raised' = FALSE
    /\ UNCHANGED <<db_articles, db_source_health, db_briefings>>

\* collect_from_source, lines 30-35 and 41: collector.collect() returns, the
\* seen articles are filtered out, the health is logged and close() awaited
collect_returns(s, source_articles) ==
    /\ ppc = "collecting"
    /\ tasks[s].at = "collect"
    /\ tasks' = [tasks EXCEPT ![s] = [at |-> "close",
                                      result |-> ok_result(source_articles)]]
    /\ fetched' = [fetched EXCEPT ![s] = source_articles]
    /\ db_source_health' = db_source_health \cup {<<s, "ok">>}
    /\ UNCHANGED <<run, finished, ppc, dry_run, closed, failed, run_articles,
                   unavailable_sources, handed, digest, db_at_start,
                   db_articles, db_briefings, raised>>
    /\ UNCHANGED dedup_vars

\* collect_from_source, lines 36-41: collector.collect() raises, the error is
\* logged and close() awaited
collect_raises(s) ==
    /\ ppc = "collecting"
    /\ tasks[s].at = "collect"
    /\ tasks' = [tasks EXCEPT ![s] = [at |-> "close", result |-> failed_result(s)]]
    /\ failed' = failed \cup {s}
    /\ db_source_health' = db_source_health \cup {<<s, "error">>}
    /\ UNCHANGED <<run, finished, ppc, dry_run, closed, fetched, run_articles,
                   unavailable_sources, handed, digest, db_at_start,
                   db_articles, db_briefings, raised>>
    /\ UNCHANGED dedup_vars

\* collect_from_source, line 41: collector.close() returns and the task ends
close_returns(s) ==
    /\ ppc = "collecting"
    /\ tasks[s].at = "close"
    /\ tasks' = [tasks EXCEPT ![s].at = "done"]
    /\ closed' = [closed EXCEPT ![s] = @ + 1]
    /\ finished' = Append(finished, s)
    /\ UNCHANGED <<run, ppc, dry_run, fetched, failed, run_articles,
                   unavailable_sources, handed, digest, db_at_start,
                   db_articles, db_source_health, db_briefings, raised>>
    /\ UNCHANGED dedup_vars

\* collect_articles, lines 65-75: gather returns when every task has ended,
\* and the results are aggregated
collect_articles_returns ==
    /\ ppc = "collecting"
    /\ \A s \in Range(Sources) : tasks[s].at = "done"
    /\ run_articles' = aggregate(tasks, 1, 1)
    /\ unavailable_sources' = aggregate(tasks, 2, 1)
    /\ ppc' = "collected"
    /\ UNCHANGED <<run, finished, dry_run, tasks, closed, fetched, failed, handed, digest,
                   db_at_start, db_articles, db_source_health, db_briefings,
                   raised>>
    /\ UNCHANGED dedup_vars

\* run_pipeline, lines 114-116: nothing was collected
run_nothing_new ==
    /\ ppc = "collected"
    /\ run_articles = <<>>
    /\ ppc' = "done"
    /\ UNCHANGED <<run, finished, dry_run, tasks, closed, fetched, failed, run_articles,
                   unavailable_sources, handed, digest, db_at_start,
                   db_articles, db_source_health, db_briefings, raised>>
    /\ UNCHANGED dedup_vars

\* run_pipeline, line 119: deduper.deduplicate(articles) is called
run_deduplicate ==
    /\ ppc = "collected"
    /\ run_articles # <<>>
    /\ deduplicate_begin(run_articles)
    /\ handed' = run_articles
    /\ ppc' = "deduplicate"
    /\ UNCHANGED submitted
    /\ UNCHANGED <<run, finished, dry_run, tasks, closed, fetched, failed, run_articles,
                   unavailable_sources, digest, db_at_start, db_articles,
                   db_source_health, db_briefings, raised>>

\* run_pipeline, lines 119-140: deduplicate has returned; the old articles
\* are filtered out, the rest is classified and saved
run_filter_and_save ==
    /\ ppc = "deduplicate"
    /\ pc = "idle"
    /\ run_articles' = filter_recent_articles(result)
    /\ IF filter_recent_articles(result) = <<>>
       THEN /\ ppc' = "done"
            /\ UNCHANGED db_articles
       ELSE /\ ppc' = "saved"
            /\ db_articles' = save_articles(db_articles,
                                            filter_recent_articles(result))
    /\ UNCHANGED <<run, finished, dry_run, tasks, closed, fetched, failed,
                   unavailable_sources, handed, digest, db_at_start,
                   db_source_health, db_briefings, raised>>
    /\ UNCHANGED dedup_vars

\* run_pipeline, lines 142-168: the briefing is synthesized from the articles
\* and rendered, and its record is created; a dry run ends here
run_create_briefing ==
    /\ ppc = "saved"
    /\ digest' = run_articles
    /\ db_briefings' = Append(db_briefings, "created")
    /\ ppc' = IF dry_run THEN "done" ELSE "created"
    /\ UNCHANGED <<run, finished, dry_run, tasks, closed, fetched, failed, run_articles,
                   unavailable_sources, handed, db_at_start, db_articles,
                   db_source_health, raised>>
    /\ UNCHANGED dedup_vars

\* Database.mark_briefing_sent, for the briefing created last
mark_briefing_sent(rows) == [rows EXCEPT ![Len(rows)] = "sent"]

\* faulty variant of mark_briefing_failed: the status is not updated
mark_briefing_failed_noop(rows) == rows

\* Database.mark_briefing_failed, for the briefing created last
mark_briefing_failed(rows) == [rows EXCEPT ![Len(rows)] = "failed"]

\* run_pipeline, lines 170-173: the email is sent
run_send_returns ==
    /\ ppc = "created"
    /\ db_briefings' = mark_briefing_sent(db_briefings)
    /\ ppc' = "done"
    /\ UNCHANGED <<run, finished, dry_run, tasks, closed, fetched, failed, run_articles,
                   unavailable_sources, handed, digest, db_at_start,
                   db_articles, db_source_health, raised>>
    /\ UNCHANGED dedup_vars

\* run_pipeline, lines 174-177: sending raises
run_send_raises ==
    /\ ppc = "created"
    /\ db_briefings' = mark_briefing_failed(db_briefings)
    /\ raised' = TRUE
    /\ ppc' = "done"
    /\ UNCHANGED <<run, finished, dry_run, tasks, closed, fetched, failed, run_articles,
                   unavailable_sources, handed, digest, db_at_start,
                   db_articles, db_source_health>>
    /\ UNCHANGED dedup_vars

NextPipe ==
    \/ \E d \in BOOLEAN : run_pipeline(d) /\ UNCHANGED <<url_vars, title_vars, repeat_vars>>
    \/ \E s \in Range(Sources) : \E source_articles \in Feeds(s) :
            collect_returns(s, source_articles) /\ UNCHANGED <<url_vars, title_vars, repeat_vars>>
    \/ \E s \in Range(Sources) : collect_raises(s) /\ UNCHANGED <<url_vars, title_vars, repeat_vars>>
    \/ \E s \in Range(Sources) : close_returns(s) /\ UNCHANGED <<url_vars, title_vars, repeat_vars>>
    \/ collect_articles_returns /\ UNCHANGED <<url_vars, title_vars, repeat_vars>>
    \/ run_nothing_new /\ UNCHANGED <<url_vars, title_vars, repeat_vars>>
    \/ run_deduplicate /\ UNCHANGED <<url_vars, title_vars, repeat_vars>>
    \/ (ppc = "deduplicate" /\ deduplicate_loop)
            /\ UNCHANGED <<url_vars, title_vars, pipe_vars, repeat_vars>>
    \/ (ppc = "deduplicate" /\ deduplicate_return)
            /\ UNCHANGED <<url_vars, title_vars, pipe_vars, repeat_vars>>
    \/ run_filter_and_save /\ UNCHANGED <<url_vars, title_vars, repeat_vars>>
    \/ run_create_briefing /\ UNCHANGED <<url_vars, title_vars, repeat_vars>>
    \/ run_send_returns /\ UNCHANGED <<url_vars, title_vars, repeat_vars>>
    \/ run_send_raises /\ UNCHANGED <<url_vars, title_vars, repeat_vars>>

SpecPipe == InitPipe /\ [][NextPipe]_vars

-----------------------------------------------------------------------------
(* Repeated calls of deduplicate: a caller records some candidates with
   mark_seen or not, calls deduplicate(batch), calls it again with the same
   batch, and then hands what the first call returned to a new Deduper. *)

InitRepeat ==
    /\ DeduperInit
    /\ UrlIdle
    /\ TitleIdle
    /\ PipeIdle
    /\ first_batch = <<>>
    /\ first_result = <<>>
    /\ first_urls = {}
    /\ first_titles = <<>>
    /\ rpc = "new"

\* mark_seen(article) before the first call
repeat_mark_seen(article) ==
    /\ rpc = "new"
    /\ call_mark_seen(article)
    /\ UNCHANGED repeat_vars

\* the first call deduplicate(batch)
repeat_first_call(batch) ==
    /\ rpc = "new"
    /\ batch # <<>>
    /\ deduplicate_call(batch)
    /\ first_batch' = batch
    /\ rpc' = "first"
    /\ UNCHANGED <<first_result, first_urls, first_titles>>

\* an iteration of the running call
repeat_loop ==
    /\ rpc \in {"first", "again", "fed"}
    /\ deduplicate_loop
    /\ UNCHANGED repeat_vars

\* the first call returns
repeat_first_return ==
    /\ rpc = "first"
    /\ deduplicate_return
    /\ first_result' = unique
    /\ first_urls' = seen_urls
    /\ first_titles' = seen_titles
    /\ rpc' = "first returned"
    /\ UNCHANGED first_batch

\* the second call deduplicate(batch) on the same Deduper
repeat_second_call ==
    /\ rpc = "first returned"
    /\ deduplicate_begin(first_batch)
    /\ rpc' = "again"
    /\ UNCHANGED submitted
    /\ UNCHANGED <<first_batch, first_result, first_urls, first_titles>>

\* the second call returns
repeat_second_return ==
    /\ rpc = "again"
    /\ deduplicate_return
    /\ rpc' = "again returned"
    /\ UNCHANGED <<first_batch, first_result, first_urls, first_titles>>

\* Deduper(): a new engine
repeat_new_deduper ==
    /\ rpc = "again returned"
    /\ Deduper_new
    /\ rpc' = "fresh"
    /\ UNCHANGED <<first_batch, first_result, first_urls, first_titles>>

\* deduplicate(first_result) on the new engine
repeat_feed_output ==
    /\ rpc = "fresh"
    /\ deduplicate_begin(first_result)
    /\ rpc' = "fed"
    /\ UNCHANGED submitted
    /\ UNCHANGED <<first_batch, first_result, first_urls, first_titles>>

\* the call on the new engine returns
repeat_feed_return ==
    /\ rpc = "fed"
    /\ deduplicate_return
    /\ rpc' = "fed returned"
    /\ UNCHANGED <<first_batch, first_result, first_urls, first_titles>>

NextRepeat ==
    \/ \E article \in Articles :
            repeat_mark_seen(article) /\ UNCHANGED <<url_vars, title_vars, pipe_vars>>
    \/ \E batch \in Batches :
            repeat_first_call(batch) /\ UNCHANGED <<url_vars, title_vars, pipe_vars>>
    \/ repeat_loop /\ UNCHANGED <<url_vars, title_vars, pipe_vars>>
    \/ repeat_first_return /\ UNCHANGED <<url_vars, title_vars, pipe_vars>>
    \/ repeat_second_call /\ UNCHANGED <<url_vars, title_vars, pipe_vars>>
    \/ repeat_second_return /\ UNCHANGED <<url_vars, title_vars, pipe_vars>>
    \/ repeat_new_deduper /\ UNCHANGED <<url_vars, title_vars, pipe_vars>>
    \/ repeat_feed_output /\ UNCHANGED <<url_vars, title_vars, pipe_vars>>
    \/ repeat_feed_return /\ UNCHANGED <<url_vars, title_vars, pipe_vars>>

SpecRepeat == InitRepeat /\ [][NextRepeat]_vars

-----------------------------------------------------------------------------
(* Properties of the engine (specification Spec) *)

\* the for loop of the running deduplicate call has ended
Finished == pc = "loop" /\ idx > Len(articles)

\* s is a prefix of t
IsPrefix(s, t) == Len(s) <= Len(t) /\ SubSeq(t, 1, Len(s)) = s

\* the elements of s at the positions P, in the order of s
RECURSIVE PickFrom(_, _, _)
PickFrom(s, P, i) ==
    IF i > Len(s) THEN <<>>
    ELSE (IF i \in P THEN <<s[i]>> ELSE <<>>) \o PickFrom(s, P, i + 1)

\* the candidate is compared as the code compares it: its normalized URL
\* with the set, its title (first argument) with every seen title (second)
Novel(c, urls, titles) ==
    /\ normalized[c.url] \notin urls
    /\ \A i \in DOMAIN titles : ~similar[c.title, titles[i]]

\* C1: every iteration of deduplicate appends the candidate to the output
\* if and only if, in the state it is evaluated in, its normalized URL is not
\* in the seen-URL set and no seen title has similarity >= threshold with
\* its title; otherwise the output stays as it is.
C1_AcceptedIffNovel ==
    [][(pc = "loop" /\ idx' = idx + 1) =>
        IF Novel(articles[idx], seen_urls, seen_titles)
        THEN unique' = Append(unique, articles[idx]) /\ last' = "accepted"
        ELSE unique' = unique /\ last' = "rejected"]_vars

\* C1 witness: a call of three candidates has accepted two and rejected the
\* third one because of its title alone
C1_Witness ==
    /\ Finished
    /\ Len(articles) = 3
    /\ kept = <<1, 2>>
    /\ last = "rejected"
    /\ normalized[articles[3].url] \notin seen_urls

\* two candidates are near-duplicates: equal normalized URL, or title
\* similarity >= threshold
NearDuplicates(a, b) ==
    \/ normalized[a.url] = normalized[b.url]
    \/ similar[a.title, b.title]
    \/ similar[b.title, a.title]

\* C2: first occurrence wins: of two near-duplicates of one batch, if the
\* earlier one is accepted the later one is rejected; and if the second of
\* two candidates given to a fresh engine is rejected, then in the swapped
\* order the other candidate is the rejected one.
C2_FirstOccurrenceWins ==
    /\ Finished =>
          \A i, j \in DOMAIN articles :
              (i < j /\ i \in Range(kept)
                     /\ NearDuplicates(articles[i], articles[j]))
              => j \notin Range(kept)
    /\ (Finished /\ Len(articles) = 2 /\ pre_urls = {} /\ pre_titles = <<>>
                 /\ kept = <<1>>)
          => ~Novel(articles[1], {normalized[articles[2].url]},
                    <<articles[2].title>>)

\* C3: the output is a subsequence of the input (input candidates only,
\* each position at most once, in input order), and each candidate looked at
\* so far was either appended or counted as removed.
C3_Subsequence ==
    pc = "loop" =>
        /\ \E P \in SUBSET (1..(idx - 1)) : unique = PickFrom(articles, P, 1)
        /\ Len(unique) + duplicates_removed = idx - 1

\* C3 witness: a finished call that kept the first and the third of three
\* candidates
C3_Witness ==
    /\ Finished
    /\ Len(articles) = 3
    /\ kept = <<1, 3>>
    /\ duplicates_removed = 1

\* C4: the output is pairwise novel (no two outputs with the same
\* normalized URL, no two outputs with title similarity >= threshold in
\* either argument order), and no output matches the seen state the call
\* started from.
C4_PairwiseNovel ==
    Finished =>
        /\ \A i, j \in DOMAIN unique :
              i < j => /\ normalized[unique[i].url] # normalized[unique[j].url]
                       /\ ~similar[unique[i].title, unique[j].title]
                       /\ ~similar[unique[j].title, unique[i].title]
        /\ \A i \in DOMAIN unique :
              /\ normalized[unique[i].url] \notin pre_urls
              /\ \A k \in DOMAIN pre_titles :
                    /\ ~similar[unique[i].title, pre_titles[k]]
                    /\ ~similar[pre_titles[k], unique[i].title]

\* C5: after reset both the seen-URL set and the seen-title history are
\* empty, as after construction, so that no candidate (also one rejected
\* before) is a duplicate; and a call starting from the empty state accepts
\* its first candidate.
C5_ResetClears ==
    /\ last = "reset" =>
          /\ seen_urls = {}
          /\ seen_titles = <<>>
          /\ \A a \in Articles : ~is_duplicate(a)
    /\ (pc = "loop" /\ idx > 1 /\ pre_urls = {} /\ pre_titles = <<>>)
          => Len(unique) >= 1 /\ unique[1] = articles[1]

\* C5 witness: a call that started from the empty state after articles had
\* been seen has accepted a candidate that was rejected before
C5_Witness ==
    /\ pc = "loop"
    /\ idx = 2
    /\ pre_urls = {}
    /\ pre_titles = <<>>
    /\ articles[1] \in rejected
    /\ unique = <<articles[1]>>

\* C6: every step other than reset keeps every element of the seen-URL set
\* and keeps the seen-title history as a prefix of the new one.
C6_GrowsMonotonically ==
    [][last' # "reset" =>
        seen_urls \subseteq seen_urls' /\ IsPrefix(seen_titles, seen_titles')]_vars

\* C6 witness: the seen state has grown over a deduplicate call and a
\* mark_seen call
C6_Witness ==
    /\ last = "mark_seen"
    /\ Len(seen_titles) = 2
    /\ Cardinality(seen_urls) = 2
    /\ rejected # {}

\* the URLs of the candidates on which urlparse raises
Malformed == {u \in {a.url : a \in Articles} : urlparse(u).err}

\* C13: normalize_url returns a URL that cannot be parsed as it is, and the
\* iteration of deduplicate on a candidate with such a URL goes on to the
\* next candidate, rejects it if its raw URL is in the seen-URL set or its
\* title is similar to a seen one, and otherwise accepts it and records
\* the raw URL.
C13_FailOpen ==
    [][(pc = "loop" /\ idx <= Len(articles) /\ articles[idx].url \in Malformed) =>
        /\ normalize_url(articles[idx].url) = articles[idx].url
        /\ pc' = "loop" /\ idx' = idx + 1 /\ articles' = articles
        /\ IF \/ articles[idx].url \in seen_urls
              \/ is_similar_to_seen(articles[idx].title)
           THEN /\ unique' = unique
                /\ seen_urls' = seen_urls
                /\ seen_titles' = seen_titles
           ELSE /\ unique' = Append(unique, articles[idx])
                /\ seen_urls' = seen_urls \cup {articles[idx].url}
                /\ seen_titles' = Append(seen_titles, articles[idx].title)]_vars

\* C13 witness: a call has accepted a candidate with a malformed URL and
\* then rejected another one because of the same raw URL alone
C13_Witness ==
    /\ Finished
    /\ Len(articles) >= 2
    /\ articles[idx - 1].url \in Malformed
    /\ last = "rejected"
    /\ idx - 2 \in Range(kept)
    /\ articles[idx - 2].url = articles[idx - 1].url
    /\ ~is_similar_to_seen(articles[idx - 1].title)
    /\ articles[idx - 1].url \in seen_urls

\* C17: when deduplicate returns from a call made with an empty seen state,
\* the seen-title list is the list of the original titles of the returned
\* candidates, in their order, and the seen-URL set is the set of their
\* normalized URLs.
C17_SeenIsOutput ==
    [][(pc = "loop" /\ pc' = "idle" /\ pre_urls = {} /\ pre_titles = <<>>) =>
        /\ seen_titles' = [i \in DOMAIN result' |-> result'[i].title]
        /\ seen_urls' = {normalize_url(result'[i].url) : i \in DOMAIN result'}]_vars

\* C17 witness: a call made with an empty seen state is about to return two
\* candidates, one of them with a title that normalization would change,
\* after rejecting a third one
C17_Witness ==
    /\ Finished
    /\ pre_urls = {} /\ pre_titles = <<>>
    /\ Len(unique) = 2
    /\ duplicates_removed = 1
    /\ \E i \in DOMAIN unique : normalize_title(unique[i].title) # unique[i].title
    /\ seen_titles = [i \in DOMAIN unique |-> unique[i].title]

\* C22: a call of is_duplicate or is_similar_to_seen and the rejection of a
\* candidate leave the seen-URL set and the seen-title list as they are;
\* while deduplicate runs, the seen state is the one of the call's start
\* extended by the accepted candidates only.
C22_RejectionRecordsNothing ==
    [][/\ last' \in {"is_duplicate", "is_similar_to_seen", "rejected"}
            => seen_urls' = seen_urls /\ seen_titles' = seen_titles
       /\ pc' = "loop"
            => /\ seen_titles' = pre_titles' \o [i \in DOMAIN unique' |-> unique'[i].title]
               /\ seen_urls' = pre_urls' \cup {normalized[unique'[i].url] :
                                                  i \in DOMAIN unique'}]_vars

\* C22 witness: a call has accepted its first candidate, rejected the second
\* one, and accepted the third one, whose title is similar to the title of
\* the rejected candidate but to no title of an accepted one
C22_Witness ==
    /\ Finished
    /\ Len(articles) = 3
    /\ kept = <<1, 3>>
    /\ pre_titles = <<>>
    /\ similar[articles[3].title, articles[2].title]
    /\ ~similar[articles[3].title, articles[1].title]
    /\ seen_titles = <<articles[1].title, articles[3].title>>

-----------------------------------------------------------------------------
(* Properties of normalize_url (specification SpecUrl) *)

\* urlparse accepts the input string
Parses == ~urlparse(url_in).err

\* the sequence s with x inserted after its first k elements
InsertAt(s, k, x) == SubSeq(s, 1, k) \o <<x>> \o SubSeq(s, k + 1, Len(s))

\* the input URL with other query fields
WithFields(fields) == Render([url_parts EXCEPT !.fields = fields])

\* is the name of the raw field name=value on the deny-list
DenyListed(field) ==
    Lower(unquote(ReplaceChar(Split1(field, "=")[1], "+", " "))) \in STRIP_PARAMS

\* query fields with deny-listed names, in several letter cases, with
\* plain, escaped and empty values
TrackingFields == {
    <<"r","e","f","=","1">>,
    <<"U","t","m","_","T","e","r","m","=","2">>,
    <<"g","c","l","i","d","=","/">>,
    <<"S","O","U","R","C","E","=">> }
    \* ref=1, Utm_Term=2, gclid=/, SOURCE=

\* C7: normalize_url is idempotent.
C7_Idempotent == upc = "twice" => url_out2 = url_out

\* C8: every permutation of the query fields of a URL normalizes to the
\* same string (the fields that do not survive are dropped wherever they
\* stand, so this permutes the surviving ones).
C8_OrderInvariant ==
    (upc = "once" /\ Parses) =>
        \A f \in Permutations(DOMAIN url_parts.fields) :
            normalize_url(WithFields([i \in DOMAIN url_parts.fields |->
                                         url_parts.fields[f[i]]])) = url_out

C10_OthersRetained ==
    (upc = "once" /\ Parses) =>
        \A i \in DOMAIN url_parts.fields :
            (Has(url_parts.fields[i], "=") /\ ~DenyListed(url_parts.fields[i]))
            => \E j \in DOMAIN parse_qsl(urlparse(url_out).query, TRUE) :
                   <<parse_qsl(urlparse(url_out).query, TRUE)[j]>>
                       = parse_field(Split1(url_parts.fields[i], "="))

\* the input URL with another path
WithPath(path) == Render([url_parts EXCEPT !.path = path])

\* C11: a URL whose path is exactly "/" keeps the path "/" when it is
\* normalized.
C11_RootPathKept ==
    (upc = "once" /\ Parses /\ url_parts.path = <<"/">>) =>
        urlparse(url_out).path = <<"/">>

\* C12: a URL normalizes to the same string as the URL with scheme and host
\* in lower case, as the URL without its fragment, and as the URL without
\* the trailing slash of its path; it normalizes to another string than the
\* URL with the path in another letter case.
C12_CaseSlashFragment ==
    (upc = "once" /\ Parses) =>
        /\ normalize_url(Render([url_parts EXCEPT !.prefix = Lower(@)])) = url_out
        /\ normalize_url(Render([url_parts EXCEPT !.fragment = <<>>])) = url_out
        /\ (url_parts.path # <<>> /\ url_parts.path[Len(url_parts.path)] = "/")
            => normalize_url(WithPath(SubSeq(url_parts.path, 1,
                                             Len(url_parts.path) - 1))) = url_out
        /\ Lower(url_parts.path) # url_parts.path
            => normalize_url(WithPath(Lower(url_parts.path))) # url_out

-----------------------------------------------------------------------------
(* Properties of the title functions (specification SpecTitle) *)

\* the two titles have been compared
Compared == tpc \in {"compared", "asked"}

\* C14: title_similarity(t1, t2) = title_similarity(t2, t1) for every pair
\* of titles.
C14_Symmetric == Compared => ratio12 = ratio21

\* C15: the similarity of two titles is 2 * matched characters / total
\* length of the normalized titles, between 0 and 1, and 1 for equal
\* normalized titles; is_similar_to_seen(title) is true if and only if the
\* similarity of the title and some title of the seen history is at least
\* 85/100, the bound included.
C15_ThresholdInclusive ==
    /\ Compared =>
        /\ 0 <= ratio12[1] /\ ratio12[1] <= ratio12[2] /\ 0 < ratio12[2]
        /\ normalize_title(title_a) = normalize_title(title_b)
            => ratio12[1] = ratio12[2]
        /\ Len(normalize_title(title_a)) + Len(normalize_title(title_b)) > 0
            => /\ ratio12[2] = Len(normalize_title(title_a))
                               + Len(normalize_title(title_b))
               /\ ratio12[1] % 2 = 0
               /\ ratio12[1] \div 2 <= Len(normalize_title(title_a))
               /\ ratio12[1] \div 2 <= Len(normalize_title(title_b))
    /\ tpc = "asked" =>
        (similar_seen <=>
            \E i \in DOMAIN seen_titles :
                100 * title_similarity(title_a, seen_titles[i])[1]
                    >= 85 * title_similarity(title_a, seen_titles[i])[2])

\* C15 witness: is_similar_to_seen has returned true for a title whose
\* similarity with the first seen title is below the threshold and with the
\* second one exactly 85/100
C15_Witness ==
    /\ tpc = "asked"
    /\ similar_seen = TRUE
    /\ Len(seen_titles) = 2
    /\ 100 * title_similarity(title_a, seen_titles[1])[1]
           < 85 * title_similarity(title_a, seen_titles[1])[2]
    /\ 100 * title_similarity(title_a, seen_titles[2])[1]
           = 85 * title_similarity(title_a, seen_titles[2])[2]

\* C16: normalize_title returns lower-case letters, digits and single
\* spaces only, without a space at either end, and applied to its result it
\* returns the result.
C16_NormalizedForm ==
    tpc \in {"normalized", "compared", "asked"} =>
        /\ \A i \in DOMAIN norm1 :
                norm1[i] \in Range(LowerChars) \cup Range(DigitChars) \cup {" "}
        /\ norm1 # <<>> => norm1[1] # " " /\ norm1[Len(norm1)] # " "
        /\ \A i \in 1..(Len(norm1) - 1) : ~(norm1[i] = " " /\ norm1[i + 1] = " ")
        /\ norm1_again = norm1

-----------------------------------------------------------------------------
(* Properties of the pipeline (specification SpecPipe) *)

\* the number of times x occurs in the sequence q
Count(q, x) == Cardinality({i \in DOMAIN q : q[i] = x})

\* the articles of the sources in configuration order, those of a failed
\* source left out, those the store has seen filtered out
RECURSIVE Expected(_)
Expected(i) ==
    IF i > Len(Sources) THEN <<>>
    ELSE (IF Sources[i] \in failed THEN <<>>
          ELSE SelectSeq(fetched[Sources[i]],
                         LAMBDA a : ~is_article_seen(db_articles, a.url)))
         \o Expected(i + 1)

\* C18: no candidate handed to deduplicate is reported as seen by the store,
\* and when the run has ended every candidate deduplicate has accepted is
\* recorded in the store.
C18_FilteredThenRecorded ==
    /\ ppc = "deduplicate" =>
        \A i \in DOMAIN handed : ~is_article_seen(db_articles, handed[i].url)
    /\ (ppc = "done" /\ handed # <<>>) =>
        \A i \in DOMAIN result : is_article_seen(db_articles, result[i].url)

\* C19: the store holds normalized URLs, and no article of the briefing has
\* the normalized URL of an article recorded by an earlier run.
C19_PersistedNormalized ==
    /\ \A r \in db_articles : r.url = normalized[r.url]
    /\ \A i \in DOMAIN digest : \A r \in db_at_start :
            normalized[r.url] # normalized[digest[i].url]

\* C20: a task whose collector has raised returns no articles and the name
\* of its source; when collect_articles has returned, the articles are those
\* of the other sources, each failed source is named once in
\* unavailable_sources and no other source is, and close() has been called
\* once on every collector.
C20_SourceFailureContained ==
    /\ \A s \in DOMAIN tasks :
            (s \in failed /\ tasks[s].at \in {"close", "done"})
                => tasks[s].result = <<<<>>, <<s>>>>
    /\ \A s \in DOMAIN tasks :
            closed[s] = (IF tasks[s].at = "done" /\ run > 0 THEN 1 ELSE 0)
    /\ ppc = "collected" =>
        /\ run_articles = Expected(1)
        /\ \A s \in Range(Sources) :
                Count(unavailable_sources, s) = (IF s \in failed THEN 1 ELSE 0)
        /\ \A s \in Range(Sources) : closed[s] = 1

\* C20 witness: collect_articles has returned the articles of the second
\* source although the first one has failed
C20_Witness ==
    /\ ppc = "collected"
    /\ failed = {Sources[1]}
    /\ unavailable_sources = <<Sources[1]>>
    /\ Len(run_articles) = 2
    /\ closed[Sources[1]] = 1

\* C21: the list handed to deduplicate is made of the articles of the
\* sources in configuration order, each source's articles in the order of
\* its feed, whatever the order in which the collection tasks have ended;
\* while deduplicate runs every collection task has ended.
C21_DeterministicOrder ==
    ppc = "deduplicate" =>
        /\ handed = Expected(1)
        /\ pc = "loop" => articles = handed
        /\ \A s \in Range(Sources) : tasks[s].at = "done"
        /\ Len(finished) = Len(Sources)

\* C21 witness: deduplicate runs on the articles of both sources, those of
\* the first source first, although the task of the second source has ended
\* first
C21_Witness ==
    /\ ppc = "deduplicate"
    /\ finished = <<Sources[2], Sources[1]>>
    /\ Len(handed) >= 2
    /\ handed[1].source = Sources[1]
    /\ handed[Len(handed)].source = Sources[2]

\* the articles of a list are all recorded in the store
Recorded(rows, list) ==
    \A i \in DOMAIN list : is_article_seen(rows, list[i].url)

\* C24: in a run that is not a dry run the articles are in the store and the
\* briefing has status 'created' when the send is attempted; when send has
\* raised the briefing has status 'failed', run_pipeline has raised, and the
\* article records are still in the store; when send has returned the
\* briefing has status 'sent'; no record leaves the store, and no article the
\* store held when a run started is among the articles collected in that run.
C24_SendFailureRecorded ==
    /\ ppc = "created" =>
        /\ ~dry_run
        /\ ~raised
        /\ digest # <<>>
        /\ db_briefings # <<>>
        /\ db_briefings[Len(db_briefings)] = "created"
        /\ Recorded(db_articles, digest)
    /\ (ppc = "done" /\ raised) =>
        /\ db_briefings # <<>>
        /\ db_briefings[Len(db_briefings)] = "failed"
        /\ Recorded(db_articles, digest)
    /\ (ppc = "done" /\ ~raised /\ ~dry_run /\ digest # <<>>) =>
        /\ db_briefings # <<>>
        /\ db_briefings[Len(db_briefings)] = "sent"
    /\ db_at_start \subseteq db_articles
    /\ ppc \in {"collected", "deduplicate"} =>
        \A i \in DOMAIN run_articles :
            ~is_article_seen(db_at_start, run_articles[i].url)

\* C24 witness: the send of the first run has raised, and in the second run
\* a source has returned an article recorded in the first run, which is not
\* among the collected articles
C24_Witness ==
    /\ run = 2
    /\ ppc = "collected"
    /\ db_briefings = <<"failed">>
    /\ \E s \in Range(Sources) : \E i \in DOMAIN fetched[s] :
            /\ is_article_seen(db_at_start, fetched[s][i].url)
            /\ \A k \in DOMAIN run_articles : run_articles[k] # fetched[s][i]

\* the article passes filter_recent_articles
Recent(article) ==
    \/ article.published_at = <<>>
    \/ article.published_at[1] <= max_age_days

\* the article is in the list
Listed(list, article) == \E k \in DOMAIN list : list[k] = article

\* C25: when deduplicate and filter_recent_articles have run, every
\* collected article that is undated or at most 7 days old is among the
\* remaining articles, or an earlier collected article with the same
\* normalized URL or a similar title is among them.
C25_NoRecentStoryLost ==
    (ppc \in {"saved", "created", "done"} /\ handed # <<>>) =>
        \A i \in DOMAIN handed :
            Recent(handed[i]) =>
                \E j \in 1..i :
                    /\ Listed(run_articles, handed[j])
                    /\ \/ j = i
                       \/ normalized[handed[i].url] = normalized[handed[j].url]
                       \/ similar[handed[i].title, handed[j].title]

-----------------------------------------------------------------------------
(* Properties of repeated calls (specification SpecRepeat) *)

\* C23: a second call of deduplicate with the same batch on the same
\* Deduper returns the empty list and leaves the seen-URL set and the
\* seen-title list as the first call left them; deduplicate on a new Deduper
\* returns the output of a call made from the empty state unchanged.
C23_CarriesOverAndIdempotent ==
    /\ rpc = "again returned" =>
        /\ result = <<>>
        /\ seen_urls = first_urls
        /\ seen_titles = first_titles
    /\ rpc = "fed returned" => result = first_result

\* C23 witness: the first call has returned two of three candidates, the
\* second call none, and the call on the new Deduper the same two
C23_Witness ==
    /\ rpc = "fed returned"
    /\ Len(first_batch) = 3
    /\ Len(first_result) = 2
    /\ result = first_result
    /\ seen_titles = first_titles

=============================================================================
